---- MODULE Spec2Model ----
(***************************************************************************)
(* Model of server.py of lilazul-api: the `state` key/value JSONB table    *)
(* (get_state / set_state), the current-book and finished-books handlers   *)
(* built on it, and the `crochet` table handlers.                          *)
(*                                                                         *)
(* Every request is served by a worker thread (FastAPI runs `def` handlers *)
(* in a thread pool).  A handler is cut into steps at its SQL statements   *)
(* and commits, which are the only points where another request can be     *)
(* observed.                                                               *)
(***************************************************************************)
EXTENDS Integers, Sequences, FiniteSets, TLC

VARIABLES
    state,      \* rows of table `state`: set of [key, value], value a jsonb datum
    crochet,    \* rows of table `crochet`: set of [id, title, notes, status]
    lock,       \* per state key: the worker whose uncommitted write holds the row, or 0
    pc,         \* per worker: position inside its handler
    op,         \* per worker: the handler being run
    arg,        \* per worker: the request's input
    loc,        \* per worker: the handler's local variables
    resp,       \* per worker: the response of the finished handler
    pre,        \* per worker: the tables as they were when the request started (history)
    usedUuids,  \* values uuid4() has returned so far (history)
    created,    \* ids of crochet rows in the order add_crochet created them (history)
    lastSet,    \* per state key: <<value of the last direct set_state call, 1 if it was
                \* the first on the key and 2 if not>>, <<>> before the first (history)
    toggled     \* per uuid n: the status the crochet row UuidStr(n) had before each of its
                \* last two toggles, oldest first; <<>> when the row is created or deleted (history)

vars == <<state, crochet, lock, pc, op, arg, loc, resp, pre, usedUuids,
          created, lastSet, toggled>>

-----------------------------------------------------------------------------
(* Bounds *)

MaxBooks == 3       \* longest finished_books list a request may extend
MaxUuid == 2        \* size of the pool uuid4() draws from
MaxCrochet == 2     \* most rows of table crochet

Workers == {1, 2}
Keys == {"current_book", "finished_books", "k"}
Titles == {"Dune", "Foo"}     \* titles posted to /current-book
BookTitles == {"Dune"}        \* titles posted to /finished-books
Dates == {"2024-01-01"}

-----------------------------------------------------------------------------
(* Python values.  A value is <<tag, payload>>; a dict keeps its items as   *)
(* a sequence of <<key, value>> in insertion order, as CPython does.        *)

PyNone == <<"null", 0>>
PyBool(b) == <<"bool", b>>
PyInt(n) == <<"int", n>>
PyStr(s) == <<"str", s>>
PyList(items) == <<"list", items>>
PyDict(items) == <<"dict", items>>

IsStr(v) == v[1] = "str"

Range(s) == {s[i] : i \in DOMAIN s}

\* d.get(k): the value of key k, None when the dict has no such key
DictGet(d, k) ==
    IF \E i \in DOMAIN d[2] : d[2][i][1] = k
    THEN d[2][CHOOSE i \in DOMAIN d[2] : d[2][i][1] = k][2]
    ELSE PyNone

\* d[k] = v: replaces in place, or appends a new key
DictSet(d, k, v) ==
    IF \E i \in DOMAIN d[2] : d[2][i][1] = k
    THEN PyDict([i \in DOMAIN d[2] |->
                    IF d[2][i][1] = k THEN <<k, v>> ELSE d[2][i]])
    ELSE PyDict(Append(d[2], <<k, v>>))

\* bool(v)
Truthy(v) ==
    CASE v[1] = "null" -> FALSE
      [] v[1] = "bool" -> v[2]
      [] v[1] = "int"  -> v[2] # 0
      [] v[1] = "str"  -> v[2] # ""
      [] OTHER         -> Len(v[2]) > 0

\* str(v), for the values an id can take
PyStrOf(v) ==
    CASE v[1] = "null" -> "None"
      [] v[1] = "int"  -> ToString(v[2])
      [] OTHER         -> v[2]

\* a == b in Python: dicts compare as mappings, whatever their item order
RECURSIVE PyEq(_, _)
PyEq(a, b) ==
    IF a[1] # b[1] THEN FALSE
    ELSE IF a[1] = "list"
    THEN /\ Len(a[2]) = Len(b[2])
         /\ \A i \in DOMAIN a[2] : PyEq(a[2][i], b[2][i])
    ELSE IF a[1] = "dict"
    THEN /\ {p[1] : p \in Range(a[2])} = {p[1] : p \in Range(b[2])}
         /\ \A p \in Range(a[2]) : PyEq(DictGet(a, p[1]), DictGet(b, p[1]))
    ELSE a[2] = b[2]

-----------------------------------------------------------------------------
(* JSON text, as a sequence of tokens <<kind, text>>:                       *)
(*   "p" punctuation, "s" string literal, "n" number literal, "w" keyword   *)

Tok(k, t) == <<k, t>>
NumRange == 0..9

RECURSIVE json_dumps(_), DumpItems(_, _), DumpPairs(_, _)
\* json.dumps(value)
json_dumps(v) ==
    CASE v[1] = "null" -> <<Tok("w", "null")>>
      [] v[1] = "bool" -> <<Tok("w", IF v[2] THEN "true" ELSE "false")>>
      [] v[1] = "int"  -> <<Tok("n", ToString(v[2]))>>
      [] v[1] = "str"  -> <<Tok("s", v[2])>>
      [] v[1] = "list" -> <<Tok("p", "[")>> \o DumpItems(v[2], 1) \o <<Tok("p", "]")>>
      [] v[1] = "dict" -> <<Tok("p", "{")>> \o DumpPairs(v[2], 1) \o <<Tok("p", "}")>>

DumpItems(items, i) ==
    IF i > Len(items) THEN <<>>
    ELSE (IF i > 1 THEN <<Tok("p", ",")>> ELSE <<>>)
         \o json_dumps(items[i]) \o DumpItems(items, i + 1)

DumpPairs(items, i) ==
    IF i > Len(items) THEN <<>>
    ELSE (IF i > 1 THEN <<Tok("p", ",")>> ELSE <<>>)
         \o <<Tok("s", items[i][1]), Tok("p", ":")>>
         \o json_dumps(items[i][2]) \o DumpPairs(items, i + 1)

\* Byte order of the strings used as object keys, for keys of equal length
ByteOrder == <<"a", "b", "k", "date", "id", "title">>
ByteLess(a, b) ==
    (CHOOSE i \in DOMAIN ByteOrder : ByteOrder[i] = a)
        < (CHOOSE i \in DOMAIN ByteOrder : ByteOrder[i] = b)

\* jsonb stores an object's keys shorter first, then bytewise
JsonbKeyLess(a, b) == Len(a) < Len(b) \/ (Len(a) = Len(b) /\ ByteLess(a, b))

\* Later duplicates of a key win; the key keeps its first position (Python dict)
RECURSIVE LastWins(_, _)
LastWins(items, acc) ==
    IF items = <<>> THEN acc
    ELSE LastWins(Tail(items), DictSet(PyDict(acc), Head(items)[1], Head(items)[2])[2])

RECURSIVE InsertSorted(_, _)
InsertSorted(sorted, p) ==
    IF sorted = <<>> THEN <<p>>
    ELSE IF JsonbKeyLess(p[1], Head(sorted)[1]) THEN <<p>> \o sorted
    ELSE <<Head(sorted)>> \o InsertSorted(Tail(sorted), p)

RECURSIVE SortPairs(_)
SortPairs(items) ==
    IF items = <<>> THEN <<>>
    ELSE InsertSorted(SortPairs(Tail(items)), Head(items))

\* The object a parser builds from the members it read, in reading order:
\* json.loads builds a dict, the jsonb input function a sorted key array
MakeObject(flavour, items) ==
    IF flavour = "jsonb" THEN PyDict(SortPairs(LastWins(items, <<>>)))
    ELSE PyDict(LastWins(items, <<>>))

RECURSIVE ParseValue(_, _, _), ParseItems(_, _, _, _), ParsePairs(_, _, _, _)
\* Parses the value starting at token i; returns <<value, index after it>>
ParseValue(f, ts, i) ==
    LET t == ts[i] IN
    CASE t[1] = "w" -> <<(IF t[2] = "null" THEN PyNone ELSE PyBool(t[2] = "true")), i + 1>>
      [] t[1] = "n" -> <<PyInt(CHOOSE n \in NumRange : ToString(n) = t[2]), i + 1>>
      [] t[1] = "s" -> <<PyStr(t[2]), i + 1>>
      [] t = Tok("p", "[") -> ParseItems(f, ts, i + 1, <<>>)
      [] t = Tok("p", "{") -> ParsePairs(f, ts, i + 1, <<>>)

ParseItems(f, ts, i, acc) ==
    IF ts[i] = Tok("p", "]") THEN <<PyList(acc), i + 1>>
    ELSE IF ts[i] = Tok("p", ",") THEN ParseItems(f, ts, i + 1, acc)
    ELSE LET r == ParseValue(f, ts, i) IN ParseItems(f, ts, r[2], Append(acc, r[1]))

ParsePairs(f, ts, i, acc) ==
    IF ts[i] = Tok("p", "}") THEN <<MakeObject(f, acc), i + 1>>
    ELSE IF ts[i] = Tok("p", ",") THEN ParsePairs(f, ts, i + 1, acc)
    ELSE LET r == ParseValue(f, ts, i + 2)
         IN ParsePairs(f, ts, r[2], Append(acc, <<ts[i][2], r[1]>>))

\* json.loads(text)
json_loads(ts) == ParseValue("py", ts, 1)[1]

\* %s::jsonb : the jsonb input function applied to the text parameter
ToJsonb(ts) == ParseValue("jsonb", ts, 1)[1]

\* value::text : the jsonb output function
JsonbText(j) == json_dumps(j)

-----------------------------------------------------------------------------
(* Table `state` (key TEXT PRIMARY KEY, value JSONB NOT NULL)               *)

StateRow(k, j) == [key |-> k, value |-> j]

\* the SELECT without its WHERE clause: every row of the table qualifies
SqlSelectStateNoWhere(tbl, key) == {JsonbText(r.value) : r \in tbl}

\* SELECT value::text FROM state WHERE key = %s
SqlSelectState(tbl, key) == {JsonbText(r.value) : r \in {x \in tbl : x.key = key}}

\* get_state: the value returned
get_state(tbl, key, default) ==
    LET rows == SqlSelectState(tbl, key)
    IN IF rows = {} THEN default ELSE json_loads(CHOOSE t \in rows : TRUE)

\* a get that stores the default it returns (dict.setdefault style)
get_state_setdefault(tbl, key, default) ==
    IF \E r \in tbl : r.key = key THEN tbl
    ELSE tbl \cup {StateRow(key, ToJsonb(json_dumps(default)))}

\* get_state: the table it leaves behind (its only statement is a SELECT)
get_state_table(tbl, key, default) == tbl

\* the INSERT without its ON CONFLICT clause: the primary key rejects a second row
SqlInsertState(tbl, key, text) ==
    IF \E r \in tbl : r.key = key
    THEN [err |-> "UniqueViolation", del |-> {}, add |-> {}]
    ELSE [err |-> "", del |-> {}, add |-> {StateRow(key, ToJsonb(text))}]

\* the INSERT with ON CONFLICT (key) DO NOTHING: an existing row is kept
SqlInsertDoNothing(tbl, key, text) ==
    [err |-> "", del |-> {},
     add |-> IF \E r \in tbl : r.key = key THEN {} ELSE {StateRow(key, ToJsonb(text))}]

\* INSERT INTO state (key, value) VALUES (%s, %s::jsonb)
\*   ON CONFLICT (key) DO UPDATE SET value = EXCLUDED.value
\* as the rows the statement deletes and adds, or the error it raises
SqlUpsertState(tbl, key, text) ==
    [err |-> "",
     del |-> {r \in tbl : r.key = key},
     add |-> {StateRow(key, ToJsonb(text))}]

-----------------------------------------------------------------------------
(* Requests *)

NoLoc == [key |-> "", value |-> PyNone, ret |-> PyNone,
          del |-> {}, add |-> {}, writes |-> 0]
NoResp == [status |-> 0, body |-> PyNone]
NoPre == [state |-> {}, crochet |-> {}]
NoArg == [none |-> TRUE]

Ok(body) == [status |-> 200, body |-> body]
HTTPException(code, detail) == [status |-> code, body |-> PyDict(<<<<"detail", PyStr(detail)>>>>)]
OkTrue == PyDict(<<<<"ok", PyBool(TRUE)>>>>)

Snapshot == [state |-> state, crochet |-> crochet]

\* worker w starts handler o with input a
Begin(w, o, a) ==
    /\ pc[w] = "idle"
    /\ op' = [op EXCEPT ![w] = o]
    /\ arg' = [arg EXCEPT ![w] = a]
    /\ pre' = [pre EXCEPT ![w] = Snapshot]

\* worker w finishes with response r
Finish(w, r) ==
    /\ pc' = [pc EXCEPT ![w] = "done"]
    /\ resp' = [resp EXCEPT ![w] = r]

\* worker w goes on to call set_state(key, value) and then return ret
CallSetState(w, key, value, ret) ==
    /\ pc' = [pc EXCEPT ![w] = "set_exec"]
    /\ loc' = [loc EXCEPT ![w] = [NoLoc EXCEPT !.key = key, !.value = value, !.ret = ret]]
    /\ UNCHANGED resp

\* set_state, cur.execute: the upsert takes the row of the key (it waits while
\* another transaction's uncommitted write holds it) and stages its change
SetExec(w) ==
    /\ pc[w] = "set_exec"
    /\ lock[loc[w].key] = 0
    /\ LET r == SqlUpsertState(state, loc[w].key, json_dumps(loc[w].value))
       IN IF r.err # ""
          THEN /\ Finish(w, HTTPException(500, r.err))
               /\ UNCHANGED <<lock, loc>>
          ELSE /\ pc' = [pc EXCEPT ![w] = "set_commit"]
               /\ lock' = [lock EXCEPT ![loc[w].key] = w]
               /\ loc' = [loc EXCEPT ![w].del = r.del, ![w].add = r.add]
               /\ UNCHANGED resp
    /\ UNCHANGED <<state, crochet, op, arg, pre, usedUuids, created, lastSet, toggled>>

\* set_state, conn.commit(): the staged change becomes visible; the handler returns
SetCommit(w) ==
    /\ pc[w] = "set_commit"
    /\ state' = (state \ loc[w].del) \cup loc[w].add
    /\ lock' = [lock EXCEPT ![loc[w].key] = 0]
    /\ loc' = [loc EXCEPT ![w].writes = @ + 1]
    /\ lastSet' = IF op[w] = "set_state"
                  THEN [lastSet EXCEPT ![loc[w].key] =
                           <<loc[w].value, IF @ = <<>> THEN 1 ELSE 2>>]
                  ELSE lastSet
    /\ Finish(w, Ok(loc[w].ret))
    /\ UNCHANGED <<crochet, op, arg, pre, usedUuids, created, toggled>>

\* the response is sent; the worker takes the next request
Return(w) ==
    /\ pc[w] = "done"
    /\ pc' = [pc EXCEPT ![w] = "idle"]
    /\ op' = [op EXCEPT ![w] = ""]
    /\ arg' = [arg EXCEPT ![w] = NoArg]
    /\ loc' = [loc EXCEPT ![w] = NoLoc]
    /\ resp' = [resp EXCEPT ![w] = NoResp]
    /\ pre' = [pre EXCEPT ![w] = NoPre]
    /\ UNCHANGED <<state, crochet, lock, usedUuids, created, lastSet, toggled>>

-----------------------------------------------------------------------------
(* The document store called directly *)

\* a document with nested arrays and objects, its keys not in jsonb order
\* a document with nested arrays and objects, its keys not in jsonb order
NestedDoc ==
    PyDict(<< <<"b", PyList(<<PyInt(1),
                              PyDict(<< <<"k", PyNone>>, <<"a", PyBool(TRUE)>> >>)>>)>>,
             <<"a", PyStr("s")>> >>)

Docs ==
    { PyDict(<<>>),
      PyList(<<>>),
      PyInt(7),
      NestedDoc,
      PyList(<<PyDict(<< <<"id", PyStr("x")>>, <<"title", PyStr("Foo")>>,
                         <<"date", PyStr("2024-01-01")>> >>)>>) }
Defaults == {PyDict(<<>>), PyList(<<>>), PyNone}

\* get_state(key, default)
GetStateCall(w, key, default) ==
    /\ Begin(w, "get_state", [key |-> key, default |-> default])
    /\ state' = get_state_table(state, key, default)
    /\ Finish(w, Ok(get_state(state, key, default)))
    /\ UNCHANGED <<crochet, lock, loc, usedUuids, created, lastSet, toggled>>

\* set_state(key, value)
SetStateCall(w, key, value) ==
    /\ Begin(w, "set_state", [key |-> key, value |-> value])
    /\ CallSetState(w, key, value, PyNone)
    /\ UNCHANGED <<state, crochet, lock, usedUuids, created, lastSet, toggled>>

-----------------------------------------------------------------------------
(* Current book *)

\* GET /current-book
get_current_book(w) ==
    /\ Begin(w, "get_current_book", [key |-> "current_book", default |-> PyDict(<<>>)])
    /\ state' = get_state_table(state, "current_book", PyDict(<<>>))
    /\ Finish(w, Ok(get_state(state, "current_book", PyDict(<<>>))))
    /\ UNCHANGED <<crochet, lock, loc, usedUuids, created, lastSet, toggled>>

\* POST /current-book
set_current_book(w, title) ==
    LET data == PyDict(<<<<"title", PyStr(title)>>>>)
    IN /\ Begin(w, "set_current_book", [title |-> title])
       /\ CallSetState(w, "current_book", data, data)
       /\ UNCHANGED <<state, crochet, lock, usedUuids, created, lastSet, toggled>>

-----------------------------------------------------------------------------
(* Finished books *)

ClientIds == {"x"}
\* the id field of a request body: absent (None), empty, or a caller's string
PayloadIds == {PyNone, PyStr("")} \cup {PyStr(i) : i \in ClientIds}

\* str(uuid4()) for the n-th value of the pool; text order follows n
UuidStr(n) == "u" \o ToString(n)
\* uuid4(): a value never returned before
FreshUuids == (1..MaxUuid) \ usedUuids

\* FinishedBook.model_dump()
FinishedBookDump(id, title, date) ==
    PyDict(<< <<"id", id>>, <<"title", PyStr(title)>>, <<"date", PyStr(date)>> >>)

\* the item add_finished_book inserts: the payload, with a generated id when
\* the payload's id is None or empty
NewBookItem(payload, uuid) ==
    IF ~Truthy(DictGet(payload, "id"))
    THEN DictSet(payload, "id", PyStr(uuid))
    ELSE payload

\* books.insert(0, item)
InsertFront(books, item) == PyList(<<item>> \o books[2])

\* [b for b in books if str(b.get("id")) != str(book_id)]
FilterOutId(books, book_id) ==
    PyList(SelectSeq(books[2], LAMBDA b : PyStrOf(DictGet(b, "id")) # book_id))

\* GET /finished-books
list_finished_books(w) ==
    /\ Begin(w, "list_finished_books", [key |-> "finished_books", default |-> PyList(<<>>)])
    /\ state' = get_state_table(state, "finished_books", PyList(<<>>))
    /\ Finish(w, Ok(get_state(state, "finished_books", PyList(<<>>))))
    /\ UNCHANGED <<crochet, lock, loc, usedUuids, created, lastSet, toggled>>

\* POST /finished-books, up to the call of set_state
add_finished_book(w, id, title, date) ==
    LET books == get_state(state, "finished_books", PyList(<<>>))
        payload == FinishedBookDump(id, title, date)
    IN /\ Len(books[2]) < MaxBooks
       /\ \E n \in (IF Truthy(id) THEN {0} ELSE FreshUuids) :
            LET item == NewBookItem(payload, UuidStr(n))
                new == InsertFront(books, item)
            IN /\ Begin(w, "add_finished_book", [payload |-> payload, item |-> item])
               /\ usedUuids' = IF Truthy(id) THEN usedUuids ELSE usedUuids \cup {n}
               /\ CallSetState(w, "finished_books", new, new)
       /\ state' = get_state_table(state, "finished_books", PyList(<<>>))
       /\ UNCHANGED <<crochet, lock, created, lastSet, toggled>>

\* the handler without its not-found test
NothingRemovedIgnored(books, newBooks) == FALSE

\* len(new_books) == len(books): nothing was filtered out
NothingRemoved(books, newBooks) == Len(newBooks[2]) = Len(books[2])

\* DELETE /finished-books/{book_id}, up to the 404 or the call of set_state
delete_finished_book(w, book_id) ==
    LET books == get_state(state, "finished_books", PyList(<<>>))
        newBooks == FilterOutId(books, book_id)
    IN /\ Begin(w, "delete_finished_book", [book_id |-> book_id])
       /\ state' = get_state_table(state, "finished_books", PyList(<<>>))
       /\ IF NothingRemoved(books, newBooks)
          THEN /\ Finish(w, HTTPException(404, "Book not found"))
               /\ UNCHANGED loc
          ELSE CallSetState(w, "finished_books", newBooks, OkTrue)
       /\ UNCHANGED <<crochet, lock, usedUuids, created, lastSet, toggled>>

\* the book ids a DELETE request may name
BookIds == ClientIds \cup {UuidStr(n) : n \in 1..MaxUuid}

-----------------------------------------------------------------------------
(* Table `crochet` (id TEXT PRIMARY KEY, title TEXT NOT NULL, notes TEXT,   *)
(* status TEXT NOT NULL).  These handlers run one request at a time in the  *)
(* model, so each is one step: its statements and its commit.               *)

CrochetTitles == {"hat"}
\* CrochetCreate.notes and .status are Optional[str]: any string, or None
CrochetNotes == {PyNone, PyStr("n")}
CrochetStatuses == {PyNone, PyStr(""), PyStr("wip"), PyStr("done"), PyStr("paused")}

\* x or default, for an Optional[str]
OrElse(x, default) == IF Truthy(x) THEN x[2] ELSE default

UuidNum(id) == CHOOSE n \in 1..MaxUuid : UuidStr(n) = id

\* CrochetItem(id=..., title=..., notes=... or "", status=...)
CrochetItem(r) ==
    PyDict(<< <<"title", PyStr(r.title)>>, <<"notes", PyStr(r.notes)>>,
              <<"status", PyStr(r.status)>>, <<"id", PyStr(r.id)>> >>)

\* SELECT id, title, notes, status FROM crochet ORDER BY id DESC
RECURSIVE SqlSelectCrochetDesc(_)
SqlSelectCrochetDesc(tbl) ==
    IF tbl = {} THEN <<>>
    ELSE LET top == CHOOSE r \in tbl : \A x \in tbl : UuidNum(x.id) <= UuidNum(r.id)
         IN <<top>> \o SqlSelectCrochetDesc(tbl \ {top})

\* INSERT INTO crochet (id, title, notes, status) VALUES (%s, %s, %s, %s)
SqlInsertCrochet(tbl, id, title, notes, status) ==
    tbl \cup {[id |-> id, title |-> title, notes |-> notes, status |-> status]}

\* SELECT title, notes, status FROM crochet WHERE id = %s
SqlSelectCrochet(tbl, id) == {r \in tbl : r.id = id}

\* "done" if row[2] != "done" else "wip"
NewStatus(status) == IF status # "done" THEN "done" ELSE "wip"

\* UPDATE crochet SET status = %s WHERE id = %s
SqlUpdateStatus(tbl, status, id) ==
    {IF r.id = id THEN [r EXCEPT !.status = status] ELSE r : r \in tbl}

\* the DELETE without its WHERE clause
SqlDeleteCrochetAll(tbl, id) == {}

\* DELETE FROM crochet WHERE id = %s
SqlDeleteCrochet(tbl, id) == {r \in tbl : r.id # id}

\* GET /crochet
list_crochet(w) ==
    /\ Begin(w, "list_crochet", NoArg)
    /\ LET rows == SqlSelectCrochetDesc(crochet)
       IN Finish(w, Ok(PyList([i \in DOMAIN rows |-> CrochetItem(rows[i])])))
    /\ UNCHANGED <<state, crochet, lock, loc, usedUuids, created, lastSet, toggled>>

\* POST /crochet
add_crochet(w, title, notes, status) ==
    /\ Cardinality(crochet) < MaxCrochet
    /\ \E n \in FreshUuids :
         LET row == [id |-> UuidStr(n), title |-> title,
                     notes |-> OrElse(notes, ""), status |-> OrElse(status, "wip")]
         IN /\ Begin(w, "add_crochet", [title |-> title, notes |-> notes, status |-> status])
            /\ usedUuids' = usedUuids \cup {n}
            /\ crochet' = SqlInsertCrochet(crochet, row.id, row.title, row.notes, row.status)
            /\ created' = Append(created, row.id)
            /\ toggled' = [toggled EXCEPT ![n] = <<>>]
            /\ Finish(w, Ok(CrochetItem(row)))
    /\ UNCHANGED <<state, lock, loc, lastSet>>

\* PATCH /crochet/{item_id}/toggle
toggle_crochet(w, item_id) ==
    LET rows == SqlSelectCrochet(crochet, item_id)
    IN /\ Begin(w, "toggle_crochet", [item_id |-> item_id])
       /\ IF rows = {}
          THEN /\ Finish(w, HTTPException(404, "Crochet item not found"))
               /\ UNCHANGED <<crochet, toggled>>
          ELSE LET row == CHOOSE r \in rows : TRUE
                   new_status == NewStatus(row.status)
               IN /\ crochet' = SqlUpdateStatus(crochet, new_status, item_id)
                  /\ toggled' = [toggled EXCEPT ![UuidNum(item_id)] =
                                    IF @ = <<>> THEN <<row.status>>
                                    ELSE <<@[Len(@)], row.status>>]
                  /\ Finish(w, Ok(CrochetItem([row EXCEPT !.status = new_status])))
       /\ UNCHANGED <<state, lock, loc, usedUuids, created, lastSet>>

\* DELETE /crochet/{item_id}
delete_crochet(w, item_id) ==
    LET after == SqlDeleteCrochet(crochet, item_id)
        deleted == Cardinality(crochet) - Cardinality(after)
    IN /\ Begin(w, "delete_crochet", [item_id |-> item_id])
       /\ crochet' = after
       /\ toggled' = IF deleted = 0 THEN toggled
                     ELSE [toggled EXCEPT ![UuidNum(item_id)] = <<>>]
       /\ Finish(w, IF deleted = 0 THEN HTTPException(404, "Crochet item not found")
                    ELSE Ok(OkTrue))
       /\ UNCHANGED <<state, lock, loc, usedUuids, created, lastSet>>

-----------------------------------------------------------------------------
(* Specifications *)

InitWith(ws) ==
    /\ state = {}
    /\ crochet = {}
    /\ lock = [k \in Keys |-> 0]
    /\ pc = [w \in Workers |-> IF w \in ws THEN "idle" ELSE "off"]
    /\ op = [w \in Workers |-> ""]
    /\ arg = [w \in Workers |-> NoArg]
    /\ loc = [w \in Workers |-> NoLoc]
    /\ resp = [w \in Workers |-> NoResp]
    /\ pre = [w \in Workers |-> NoPre]
    /\ usedUuids = {}
    /\ created = <<>>
    /\ lastSet = [k \in Keys |-> <<>>]
    /\ toggled = [n \in 1..MaxUuid |-> <<>>]

\* one request at a time
Init == InitWith({1})
\* two requests in flight
InitConc == InitWith(Workers)

StoreNext ==
    \E w \in Workers :
        \/ \E k \in Keys, d \in Defaults : GetStateCall(w, k, d)
        \/ \E k \in Keys, v \in Docs : SetStateCall(w, k, v)
        \/ get_current_book(w)
        \/ list_finished_books(w)
        \/ SetExec(w)
        \/ SetCommit(w)
        \/ Return(w)

Next ==
    \E w \in Workers :
        \/ get_current_book(w)
        \/ \E t \in Titles : set_current_book(w, t)
        \/ list_finished_books(w)
        \/ \E i \in PayloadIds, t \in BookTitles, d \in Dates : add_finished_book(w, i, t, d)
        \/ \E b \in BookIds : delete_finished_book(w, b)
        \/ SetExec(w)
        \/ SetCommit(w)
        \/ Return(w)

\* the finished-books writers, with ids left to the service
ConcNext ==
    \E w \in Workers :
        \/ \E t \in BookTitles, d \in Dates : add_finished_book(w, PyNone, t, d)
        \/ \E n \in 1..MaxUuid : delete_finished_book(w, UuidStr(n))
        \/ SetExec(w)
        \/ SetCommit(w)
        \/ Return(w)

CrochetNext ==
    \E w \in Workers :
        \/ list_crochet(w)
        \/ \E t \in CrochetTitles, n \in CrochetNotes, st \in CrochetStatuses :
              add_crochet(w, t, n, st)
        \/ \E n \in 1..MaxUuid : toggle_crochet(w, UuidStr(n))
        \/ \E n \in 1..MaxUuid : delete_crochet(w, UuidStr(n))
        \/ Return(w)

\* the finished-books and current-book handlers, one request at a time
Spec == Init /\ [][Next]_vars
\* the finished-books writers with two requests in flight
SpecConc == InitConc /\ [][ConcNext]_vars
\* get_state / set_state called directly, one call at a time
SpecStore == Init /\ [][StoreNext]_vars
\* the crochet handlers, one request at a time
SpecCrochet == Init /\ [][CrochetNext]_vars

-----------------------------------------------------------------------------
(* Properties *)

Done(w, o) == pc[w] = "done" /\ op[w] = o
NoBooks == PyList(<<>>)
\* the finished_books list as stored now, and as stored when w's request started
StoredBooks == get_state(state, "finished_books", NoBooks)
BooksBefore(w) == get_state(pre[w].state, "finished_books", NoBooks)
IdsOf(books) == {PyStrOf(DictGet(b, "id")) : b \in Range(books[2])}
HasRow(tbl, k) == \E r \in tbl : r.key = k
\* s without its i-th element
RemoveAt(s, i) == SubSeq(s, 1, i - 1) \o SubSeq(s, i + 1, Len(s))

\* C1: a sequential get_state(k, d) returns the value of the most recent
\* set_state on k (equal as Python/JSON values), never the default and never
\* an older value.
C1_GetReturnsLastSet ==
    \A w \in Workers :
        (Done(w, "get_state") /\ lastSet[arg[w].key] # <<>>)
            => /\ resp[w].status = 200
               /\ PyEq(resp[w].body, lastSet[arg[w].key][1])

\* a get that returns a nested document written over an earlier value
C1_Witness ==
    \E w \in Workers :
        /\ Done(w, "get_state")
        /\ lastSet[arg[w].key] = <<NestedDoc, 2>>
        /\ PyEq(resp[w].body, NestedDoc)
        /\ resp[w].body # arg[w].default

\* C2: the state table never holds two rows for a key, no set_state fails
\* with a duplicate-key error, and the commit of a set_state leaves exactly
\* one row for its key, holding that writer's value, under any interleaving
\* of writers.
C2_AtomicUpsert ==
    /\ [](\A k \in Keys : Cardinality({r \in state : r.key = k}) <= 1)
    /\ [](\A w \in Workers : resp[w].status # 500)
    /\ [][\A w \in Workers :
            (pc[w] = "set_commit" /\ pc'[w] = "done")
                => {r \in state' : r.key = loc[w].key}
                       = {StateRow(loc[w].key, ToJsonb(json_dumps(loc[w].value)))}]_vars

\* two writers on one key that has no row yet: one holds the row, one waits
C2_Witness ==
    \E w1, w2 \in Workers :
        /\ w1 # w2
        /\ pc[w1] = "set_commit"
        /\ pc[w2] = "set_exec"
        /\ loc[w1].key = loc[w2].key
        /\ loc[w1].value # loc[w2].value
        /\ ~HasRow(state, loc[w1].key)

\* C3: get_state(k, d) on a key without a row returns d and leaves the state
\* table as it was; so do GET /current-book ({}) and GET /finished-books ([]).
C3_GetDefaultNoRow ==
    \A w \in Workers :
        (/\ pc[w] = "done"
         /\ op[w] \in {"get_state", "get_current_book", "list_finished_books"}
         /\ ~HasRow(pre[w].state, arg[w].key))
            => /\ resp[w] = Ok(arg[w].default)
               /\ state = pre[w].state

\* GET /current-book answered {} while other keys have rows
C3_Witness ==
    \E w \in Workers :
        /\ Done(w, "get_current_book")
        /\ ~HasRow(pre[w].state, "current_book")
        /\ resp[w].body = PyDict(<<>>)
        /\ state # {}

\* C4: add_finished_book stores and returns the previous list with the new
\* item put in front, and the new item's id is non-empty and differs from
\* the id of every item already in the list.
C4_AddPrependsUniqueId ==
    \A w \in Workers :
        Done(w, "add_finished_book")
            => LET before == BooksBefore(w)
                   item == arg[w].item
               IN /\ PyEq(resp[w].body, StoredBooks)
                  /\ Len(StoredBooks[2]) = Len(before[2]) + 1
                  /\ PyEq(StoredBooks[2][1], item)
                  /\ PyEq(PyList(Tail(StoredBooks[2])), before)
                  /\ IsStr(DictGet(item, "id"))
                  /\ DictGet(item, "id")[2] # ""
                  /\ DictGet(item, "id")[2] \notin IdsOf(before)

\* C5: a successful delete_finished_book(id) removes exactly one item, the
\* one with that id, and keeps the others in their order.
C5_DeleteRemovesOne ==
    \A w \in Workers :
        (Done(w, "delete_finished_book") /\ arg[w].book_id \in IdsOf(BooksBefore(w)))
            => LET before == BooksBefore(w)[2]
               IN /\ resp[w].status = 200
                  /\ Len(StoredBooks[2]) = Len(before) - 1
                  /\ \E i \in DOMAIN before :
                        /\ PyStrOf(DictGet(before[i], "id")) = arg[w].book_id
                        /\ StoredBooks[2] = RemoveAt(before, i)

\* C6: delete_finished_book(id) with no item of that id answers 404, calls
\* no set_state and leaves the state table as it was.
C6_DeleteMissing ==
    \A w \in Workers :
        (Done(w, "delete_finished_book") /\ arg[w].book_id \notin IdsOf(BooksBefore(w)))
            => /\ resp[w].status = 404
               /\ loc[w].writes = 0
               /\ state = pre[w].state

\* the scenario: an unknown id against a one-item list
C6_Witness ==
    \E w \in Workers :
        /\ Done(w, "delete_finished_book")
        /\ resp[w].status = 404
        /\ Len(BooksBefore(w)[2]) = 1
        /\ Len(StoredBooks[2]) = 1

\* C7: two toggles in a row bring a crochet item back to the status it had.
C7_ToggleInvolution ==
    \A r \in crochet :
        Len(toggled[UuidNum(r.id)]) = 2 => r.status = toggled[UuidNum(r.id)][1]

\* C8: nothing spans the read and the write of a finished-books writer: when
\* its set_state commits, the stored list is the one it computed from the
\* list it read when it started, whatever was committed in between.
C8_LastWriterWins ==
    [][\A w \in Workers :
          (pc[w] = "set_commit" /\ pc'[w] = "done" /\ loc[w].key = "finished_books")
              => LET computed ==
                         IF op[w] = "add_finished_book"
                         THEN InsertFront(BooksBefore(w), arg[w].item)
                         ELSE FilterOutId(BooksBefore(w), arg[w].book_id)
                 IN {r \in state' : r.key = "finished_books"}
                        = {StateRow("finished_books", ToJsonb(json_dumps(computed)))}]_vars

\* the lost update: two adds both answered 200, one item is not in the list
C8_Witness ==
    \E w1, w2 \in Workers :
        /\ w1 # w2
        /\ Done(w1, "add_finished_book") /\ resp[w1].status = 200
        /\ Done(w2, "add_finished_book") /\ resp[w2].status = 200
        /\ DictGet(arg[w1].item, "id")[2] \notin IdsOf(StoredBooks)
        /\ DictGet(arg[w2].item, "id")[2] \in IdsOf(StoredBooks)

\* position of id in the creation history
CreatedAt(id) == CHOOSE i \in DOMAIN created : created[i] = id

\* C9: list_crochet returns the items newest first: an item created later
\* comes earlier in the list.
C9_ReverseCreationOrder ==
    \A w \in Workers :
        Done(w, "list_crochet")
            => LET items == resp[w].body[2]
               IN \A i, j \in DOMAIN items :
                     i < j => CreatedAt(DictGet(items[i], "id")[2])
                                  > CreatedAt(DictGet(items[j], "id")[2])

\* C10: toggle_crochet / delete_crochet with an unknown id answer 404 and
\* leave the crochet table as it was; with a known id, toggle changes the
\* status of that row only and delete removes that row only.
C10_CrochetNotFound ==
    \A w \in Workers :
        LET before == pre[w].crochet
            rows == {r \in before : r.id = arg[w].item_id}
        IN /\ Done(w, "toggle_crochet")
                => IF rows = {}
                   THEN resp[w].status = 404 /\ crochet = before
                   ELSE /\ resp[w].status = 200
                        /\ \E r \in rows, st \in {"wip", "done"} :
                              /\ st # r.status
                              /\ crochet = (before \ {r}) \cup {[r EXCEPT !.status = st]}
           /\ Done(w, "delete_crochet")
                => IF rows = {}
                   THEN resp[w].status = 404 /\ crochet = before
                   ELSE /\ resp[w].status = 200
                        /\ Cardinality(rows) = 1
                        /\ crochet = before \ rows

\* a delete of an unknown id answered 404 while the table has a row
C10_Witness ==
    \E w \in Workers :
        /\ Done(w, "delete_crochet")
        /\ resp[w].status = 404
        /\ crochet # {}
        /\ crochet = pre[w].crochet

====
